---- MODULE Spec2Model ----
(***************************************************************************)
(* SmartSearch proxy: bearer-token cache and multi-candidate resolution.   *)
(*                                                                         *)
(* The repository holds four revisions of the server:                      *)
(*   "discovery"  src/server.js lines 1-295   (static list + discovery)    *)
(*   "alias404"   src/server.js lines 297-421 (primary + alias, 404 only)  *)
(*   "alias"      src/unnamed/part_000        (primary + alias, non-2xx)   *)
(*   "fallbacks"  src/unnamed/part_001        (PATH_FALLBACKS list)        *)
(* The deployed revision is fixed for a behaviour (variable variant).      *)
(* Time is in milliseconds counted from process start.                     *)
(***************************************************************************)
EXTENDS Integers, Sequences, FiniteSets, TLC

VARIABLES
    variant,          \* which revision of the server runs
    creds,            \* SMARTSEARCH_API_KEY, SS_USER and SS_PASS are all set
    now,              \* the clock read by Date.now()
    bearer,           \* cached token, <<>> when null
    bearerExpiresAt,  \* cached expiry (ms)
    pc,               \* per request slot: position of the handler
    req,              \* per request slot: the inbound request
    loc,              \* per request slot: the handler's local variables
    res,              \* per request slot: the response sent
    out,              \* per request slot: outbound calls issued (history)
    stats,            \* per request slot: getBearer calls made (history)
    served,           \* number of inbound requests received so far
    authFailed        \* the most recent login attempt failed (history)

vars == <<variant, creds, now, bearer, bearerExpiresAt, pc, req, loc, res,
          out, stats, served, authFailed>>

----------------------------------------------------------------------------
\* Bounds of the model

MaxTicks == 1          \* the clock advances at most this many times
MaxRequests == 2       \* inbound requests handled in one behaviour
MaxOddMisses == 1      \* non-404 misses the upstream returns per resolution

TickMs == 60 * 1000    \* one clock advance
DriftMs == 1           \* clock advance between two consecutive Date.now()

----------------------------------------------------------------------------
\* Program constants

skew == 120000

FallbackMs == 30 * 60 * 1000

Variants == {"discovery", "alias404", "alias", "fallbacks"}

\* the allow-list with one more name let through
ALLOW_LIST_open == {"applicants", "businesses", "candidates", "contacts",
                    "documents", "hires", "jobs", "notes", "offers", "projects",
                    "users"}

ALLOW_LIST == {"applicants", "businesses", "candidates", "contacts",
               "documents", "hires", "jobs", "notes", "offers", "projects"}

\* PATH_ALIASES as a lookup: the alias of a resource, "" when it has none
PATH_ALIASES(resource) == IF resource = "applicants" THEN "job/applicants" ELSE ""

PATH_FALLBACKS_applicants ==
    << "applicants", "job/applicants", "job/applications", "applications",
       "JobApplicants", "job/JobApplicants", "jobapplications" >>

----------------------------------------------------------------------------
\* Inputs

Resources == {"applicants", "jobs", "users"}

NoId == ""
Ids == {"a/b"}

\* encodeURIComponent on the ids of the model
encodeURIComponent(id) == IF id = "a/b" THEN "a%2Fb" ELSE id

NoQuery == {}
Queries == {NoQuery, {<<"$top", "5">>}}

Tokens == {<<1, 2, 3>>, <<1, 2, 3, 4, 5, 6, 7, 8, 9>>}

\* data.expiresIn of the login response: missing, a number, an all-digit
\* string, an absolute timestamp ("date", n its instant in ms), or a string
\* that is none of these
Absent == [kind |-> "absent", n |-> 0]
Num(n) == [kind |-> "num", n |-> n]
Digits(n) == [kind |-> "digits", n |-> n]
Date(t) == [kind |-> "date", n |-> t]
Garbage == [kind |-> "garbage", n |-> 0]

\* Responses of the upstream to a resource GET; ctype "" is no content-type
Responses ==
    { [status |-> 200, body |-> "value", ctype |-> "application/json;odata"],
      [status |-> 204, body |-> "", ctype |-> ""],
      [status |-> 404, body |-> "not found", ctype |-> "text/plain"],
      [status |-> 500, body |-> "", ctype |-> ""] }

NoResp == [status |-> 0, body |-> "", ctype |-> ""]

LoginResponse(st, token, expiresIn) ==
    [status |-> st, accessToken |-> token, expiresIn |-> expiresIn]

\* Responses of the login endpoint, as getBearer reads them: status, and the
\* accessToken (<<>> when missing) and expiresIn of the body
LoginResponses ==
    { LoginResponse(200, <<1, 2, 3>>, Absent),
      LoginResponse(200, <<1, 2, 3>>, Garbage),
      LoginResponse(200, <<1, 2, 3>>, Num(0)),
      LoginResponse(200, <<1, 2, 3, 4, 5, 6, 7, 8, 9>>, Num(180)),
      LoginResponse(200, <<1, 2, 3>>, Digits(0)),
      LoginResponse(200, <<1, 2, 3, 4, 5, 6, 7, 8, 9>>, Digits(180)),
      LoginResponse(200, <<1, 2, 3>>, Date(3 * TickMs)),
      LoginResponse(200, <<>>, Absent),
      LoginResponse(401, <<>>, Absent) }

\* r.ok taken as "status is 200"
Ok_only200(r) == r.status = 200

\* r.ok
Ok(r) == r.status >= 200 /\ r.status <= 299

\* the request slots; each handles one inbound request at a time
Slots == {1}

----------------------------------------------------------------------------
\* Bearer cache

\* parseExpiresIn(value), with t the value Date.now() returns inside it;
\* the result is <<ms>>, or <<>> for null
parseExpiresIn(value, t) ==
    CASE value.kind = "absent" -> <<>>
      [] value.kind = "num" -> IF value.n = 0 THEN <<>> ELSE <<value.n * 1000>>
      [] value.kind = "digits" -> <<value.n * 1000>>
      [] value.kind = "date" -> <<value.n - t>>
      [] OTHER -> <<>>

\* parseExpiresIn(data.expiresIn) ?? 30 * 60 * 1000
LifetimeMs(value, t) ==
    LET p == parseExpiresIn(value, t) IN IF p = <<>> THEN FallbackMs ELSE p[1]

\* the cache-hit test without the early-refresh margin
CacheHit_noSkew == bearer # <<>> /\ now < bearerExpiresAt

\* the cache-hit test with <= in place of <
CacheHit_inclusive == bearer # <<>> /\ now <= bearerExpiresAt - skew

\* the cache-hit test of getBearer
CacheHit == bearer # <<>> /\ now < bearerExpiresAt - skew

----------------------------------------------------------------------------
\* Values of the handler state

NoUrl == [rel |-> "", id |-> NoId, query |-> NoQuery]

Thrown == [status |-> -1, body |-> "", ctype |-> ""]

\* no login response at hand
NoLogin == [status |-> 0, accessToken |-> <<>>, expiresIn |-> Absent]

\* locals of a handler before it has run
NoLoc ==
    [ login |-> NoLogin, b |-> <<>>, ret |-> "handler", db |-> <<>>, metaNames |-> <<>>,
      discovered |-> <<>>, attempts |-> <<>>, idx |-> 0, tryLog |-> <<>>, finalResp |-> NoResp ]

\* the response object before anything is set on it; status 0 is "not sent",
\* a header is <<>> when not set and <<value>> when set; bearerPreview and
\* expiresAt are the fields of the /debug/auth reply, set the same way
NoRes ==
    [ status |-> 0, body |-> "", ctype |-> "", detail |-> "",
      hUpstream |-> <<>>, hAttempts |-> <<>>, hCandidates |-> <<>>,
      hPrimaryUrl |-> <<>>, hPrimaryStatus |-> <<>>,
      bearerPreview |-> <<>>, expiresAt |-> <<>> ]

NoReq == [route |-> "none", resource |-> "", id |-> NoId, query |-> NoQuery]

\* getBearer calls made and how many of them were cache hits
NoStats == [gb |-> 0, hits |-> 0]

Requests ==
    {[route |-> "collection", resource |-> r, id |-> NoId, query |-> q] :
        r \in Resources, q \in Queries}
    \cup
    {[route |-> "byId", resource |-> r, id |-> i, query |-> q] :
        r \in Resources, i \in Ids, q \in Queries \ {NoQuery}}

\* GET /debug/auth
DebugAuthRequest == [route |-> "debugAuth", resource |-> "", id |-> NoId, query |-> NoQuery]

\* an outbound call whose Authorization header is built from the cache as
\* it is when the call is issued, not from the handler's own copy
Call_cached(op, url, token) ==
    [op |-> op, url |-> url, token |-> IF op = "get" THEN bearer ELSE token,
     resp |-> NoResp]

\* an outbound call as recorded in out: the token it carries and, for a
\* login or a resource GET, its response once received
Call(op, url, token) == [op |-> op, url |-> url, token |-> token, resp |-> NoResp]

\* the outbound calls of a slot of one kind
CallsOf(s, op) == SelectSeq(out[s], LAMBDA c : c.op = op)

\* the response of the pending (last) outbound call is filled in
Answer(log, resp) == [log EXCEPT ![Len(log)].resp = resp]

\* res.status(st).json({error: err, detail: det})
JsonError(r, st, err, det) ==
    [r EXCEPT !.status = st, !.body = err, !.ctype = "application/json",
              !.detail = det]

\* a handler without its catch: the error escapes and no response is sent
Catch_escapes(s, route, det) ==
    /\ res' = res
    /\ pc' = [pc EXCEPT ![s] = "crashed"]

\* the catch block of the handler of route: 500 "Proxy fetch failed" from a
\* proxy handler, 500 { ok: false, error } from /debug/auth
Catch(s, route, det) ==
    /\ res' = [res EXCEPT ![s] =
                 JsonError(res[s], 500,
                           IF route = "debugAuth" THEN "ok: false" ELSE "Proxy fetch failed",
                           det)]
    /\ pc' = [pc EXCEPT ![s] = "done"]

----------------------------------------------------------------------------
Init ==
    /\ variant \in Variants
    /\ creds \in BOOLEAN
    /\ now = 0
    /\ bearer = <<>>
    /\ bearerExpiresAt = 0
    /\ pc = [s \in Slots |-> "idle"]
    /\ req = [s \in Slots |-> NoReq]
    /\ loc = [s \in Slots |-> NoLoc]
    /\ res = [s \in Slots |-> NoRes]
    /\ out = [s \in Slots |-> <<>>]
    /\ stats = [s \in Slots |-> NoStats]
    /\ served = 0
    /\ authFailed = FALSE

\* The clock advances.  Only getBearer reads the clock (the cache-hit test
\* and the two Date.now() of a login's completion), so an advance shows only
\* there: the clock is advanced when the next step of some handler reads it.
Tick ==
    /\ now + TickMs <= MaxTicks * TickMs
    /\ \E s \in DOMAIN pc :
          \/ pc[s] \in {"idle", "loginBody"}
          \/ pc[s] = "authed" /\ variant = "discovery" /\ req[s].resource = "applicants"
    /\ now' = now + TickMs
    /\ UNCHANGED <<variant, creds, bearer, bearerExpiresAt, pc, req, loc, res,
                   out, stats, served, authFailed>>

\* getBearer() that goes to the login without testing the credentials
getBearer_noCredsCheck(s, route, ret, hitPc) ==
    /\ stats' = [stats EXCEPT ![s].gb = @ + 1,
                              ![s].hits = IF CacheHit THEN @ + 1 ELSE @]
    /\ IF CacheHit
       THEN /\ pc' = [pc EXCEPT ![s] = hitPc]
            /\ loc' = [loc EXCEPT ![s] = IF ret = "handler"
                                          THEN [@ EXCEPT !.b = bearer]
                                          ELSE [@ EXCEPT !.db = bearer]]
            /\ UNCHANGED <<res, out>>
       ELSE /\ pc' = [pc EXCEPT ![s] = "login"]
            /\ loc' = [loc EXCEPT ![s].ret = ret]
            /\ out' = [out EXCEPT ![s] = Append(@, Call("login", NoUrl, <<>>))]
            /\ UNCHANGED res

\* getBearer() up to its first await, called by slot s in the handler of
\* route; ret names the caller ("handler" or "discover"), hitPc the caller's
\* position once it has the token.  Sets pc, loc, res, out and stats.
getBearer(s, route, ret, hitPc) ==
    /\ stats' = [stats EXCEPT ![s].gb = @ + 1,
                              ![s].hits = IF CacheHit THEN @ + 1 ELSE @]
    /\ IF CacheHit
       THEN /\ pc' = [pc EXCEPT ![s] = hitPc]
            /\ loc' = [loc EXCEPT ![s] = IF ret = "handler"
                                          THEN [@ EXCEPT !.b = bearer]
                                          ELSE [@ EXCEPT !.db = bearer]]
            /\ UNCHANGED <<res, out>>
       ELSE IF ~creds
       THEN /\ Catch(s, route, "Missing SMARTSEARCH_API_KEY or SS_USER or SS_PASS")
            /\ UNCHANGED <<loc, out>>
       ELSE /\ pc' = [pc EXCEPT ![s] = "login"]
            /\ loc' = [loc EXCEPT ![s].ret = ret]
            /\ out' = [out EXCEPT ![s] = Append(@, Call("login", NoUrl, <<>>))]
            /\ UNCHANGED res

\* An inbound GET /proxy/:resource or /proxy/:resource/:id enters its handler:
\* the allow-list check, then the handler's getBearer call
Receive(s, q) ==
    /\ pc[s] = "idle"
    /\ served < MaxRequests
    /\ served' = served + 1
    /\ req' = [req EXCEPT ![s] = q]
    /\ IF q.resource \notin ALLOW_LIST
       THEN /\ res' = [res EXCEPT ![s] = JsonError(res[s], 404, "Resource not allowed", "")]
            /\ pc' = [pc EXCEPT ![s] = "done"]
            /\ UNCHANGED <<loc, out, stats>>
       ELSE getBearer(s, q.route, "handler", "authed")
    /\ UNCHANGED <<variant, creds, now, bearer, bearerExpiresAt, authFailed>>

\* An inbound GET /debug/auth enters its handler, which starts with
\* getBearer; the second half of src/server.js has no such route
DebugAuth(s) ==
    /\ pc[s] = "idle"
    /\ served < MaxRequests
    /\ variant # "alias404"
    /\ served' = served + 1
    /\ req' = [req EXCEPT ![s] = DebugAuthRequest]
    /\ getBearer(s, "debugAuth", "handler", "authed")
    /\ UNCHANGED <<variant, creds, now, bearer, bearerExpiresAt, authFailed>>

\* b.slice(0, 8)
Slice8(b) == SubSeq(b, 1, IF Len(b) < 8 THEN Len(b) ELSE 8)

\* The /debug/auth handler resumes with its token and replies
\* { ok: true, bearerPreview: b.slice(0, 8) + "...", expiresAt }
DebugAuthReply(s) ==
    /\ pc[s] = "authed"
    /\ req[s].route = "debugAuth"
    /\ res' = [res EXCEPT ![s] = [@ EXCEPT !.status = 200, !.body = "ok: true",
                                            !.ctype = "application/json",
                                            !.bearerPreview = <<Slice8(loc[s].b)>>,
                                            !.expiresAt = <<bearerExpiresAt>>]]
    /\ pc' = [pc EXCEPT ![s] = "done"]
    /\ UNCHANGED <<variant, creds, now, bearer, bearerExpiresAt, req, loc, out,
                   stats, served, authFailed>>

\* The login fetch throws (transport failure): getBearer throws and the
\* handler's catch answers 500
LoginThrows(s) ==
    /\ pc[s] = "login"
    /\ authFailed' = TRUE
    /\ out' = [out EXCEPT ![s] = Answer(@, Thrown)]
    /\ Catch(s, req[s].route, "fetch failed")
    /\ UNCHANGED <<variant, creds, now, bearer, bearerExpiresAt, req, loc,
                   stats, served>>

\* The login fetch returns response r; getBearer goes on to read its body
LoginResponds(s, r) ==
    /\ pc[s] = "login"
    /\ loc' = [loc EXCEPT ![s].login = r]
    /\ out' = [out EXCEPT ![s] = Answer(@, [status |-> r.status, body |-> "", ctype |-> ""])]
    /\ pc' = [pc EXCEPT ![s] = "loginBody"]
    /\ UNCHANGED <<variant, creds, now, bearer, bearerExpiresAt, req, res,
                   stats, served, authFailed>>

\* the login response passes getBearer's two checks: r.ok and data.accessToken
LoginAccepted(r) == Ok(r) /\ r.accessToken # <<>>

\* the cached pair when bearer is assigned before data.accessToken is checked
FailedLoginCache_early(r) ==
    IF Ok(r) THEN <<r.accessToken, bearerExpiresAt>> ELSE <<bearer, bearerExpiresAt>>

\* the cached pair after a login response failed a check: getBearer throws
\* before it assigns to bearer and bearerExpiresAt
FailedLoginCache(r) == <<bearer, bearerExpiresAt>>

\* a login's completion that assigns bearer and leaves bearerExpiresAt to a
\* later turn of the event loop
LoginOk_torn(s, drift) ==
    /\ pc[s] = "loginBody"
    /\ LoginAccepted(loc[s].login)
    /\ bearer' = loc[s].login.accessToken
    /\ bearerExpiresAt' = bearerExpiresAt
    /\ authFailed' = FALSE
    /\ IF loc[s].ret = "handler"
       THEN /\ loc' = [loc EXCEPT ![s].b = loc[s].login.accessToken, ![s].login = NoLogin]
            /\ pc' = [pc EXCEPT ![s] = "authed"]
       ELSE /\ loc' = [loc EXCEPT ![s].db = loc[s].login.accessToken, ![s].login = NoLogin]
            /\ pc' = [pc EXCEPT ![s] = "dauthed"]
    /\ UNCHANGED <<variant, creds, now, req, res, out, stats, served>>

\* The login response is 2xx and has an accessToken: the cache is replaced
\* and getBearer returns.  drift is the time between the Date.now() inside
\* parseExpiresIn and the Date.now() of the assignment to bearerExpiresAt.
LoginOk(s, drift) ==
    /\ pc[s] = "loginBody"
    /\ LoginAccepted(loc[s].login)
    /\ bearer' = loc[s].login.accessToken
    /\ bearerExpiresAt' = now + LifetimeMs(loc[s].login.expiresIn, now - drift)
    /\ authFailed' = FALSE
    /\ IF loc[s].ret = "handler"
       THEN /\ loc' = [loc EXCEPT ![s].b = loc[s].login.accessToken, ![s].login = NoLogin]
            /\ pc' = [pc EXCEPT ![s] = "authed"]
       ELSE /\ loc' = [loc EXCEPT ![s].db = loc[s].login.accessToken, ![s].login = NoLogin]
            /\ pc' = [pc EXCEPT ![s] = "dauthed"]
    /\ UNCHANGED <<variant, creds, now, req, res, out, stats, served>>

\* The login response is not 2xx or has no accessToken: getBearer throws and
\* the handler's catch answers 500
LoginRejected(s) ==
    /\ pc[s] = "loginBody"
    /\ ~LoginAccepted(loc[s].login)
    /\ authFailed' = TRUE
    /\ bearer' = FailedLoginCache(loc[s].login)[1]
    /\ bearerExpiresAt' = FailedLoginCache(loc[s].login)[2]
    /\ Catch(s, req[s].route,
             IF Ok(loc[s].login) THEN "Auth payload missing accessToken" ELSE "Auth failed")
    /\ loc' = [loc EXCEPT ![s].login = NoLogin]
    /\ UNCHANGED <<variant, creds, now, req, out, stats, served>>

\* The response has been sent; the slot takes the next request
Finish(s) ==
    /\ pc[s] = "done"
    /\ served < MaxRequests
    /\ pc' = [pc EXCEPT ![s] = "idle"]
    /\ req' = [req EXCEPT ![s] = NoReq]
    /\ loc' = [loc EXCEPT ![s] = NoLoc]
    /\ res' = [res EXCEPT ![s] = NoRes]
    /\ out' = [out EXCEPT ![s] = <<>>]
    /\ stats' = [stats EXCEPT ![s] = NoStats]
    /\ UNCHANGED <<variant, creds, now, bearer, bearerExpiresAt, served, authFailed>>

----------------------------------------------------------------------------
\* Candidate lists

\* `job/${resource}`
JobPath(resource) ==
    CASE resource = "applicants" -> "job/applicants"
      [] resource = "businesses" -> "job/businesses"
      [] resource = "candidates" -> "job/candidates"
      [] resource = "contacts" -> "job/contacts"
      [] resource = "documents" -> "job/documents"
      [] resource = "hires" -> "job/hires"
      [] resource = "jobs" -> "job/jobs"
      [] resource = "notes" -> "job/notes"
      [] resource = "offers" -> "job/offers"
      [] resource = "projects" -> "job/projects"
      [] OTHER -> "job/?"

\* an absolute URL under SMARTSEARCH_BASE: relative path, encoded id, query
Url(rel, id, query) ==
    [rel |-> rel, id |-> IF id = NoId THEN NoId ELSE encodeURIComponent(id),
     query |-> query]

\* the sequence with its repeated elements left in
Unique_keepAll(seq, seen) == seq

\* the elements of a sequence, each kept at its first occurrence only
RECURSIVE Unique(_, _)
Unique(seq, seen) ==
    IF seq = <<>> THEN <<>>
    ELSE IF Head(seq) \in seen THEN Unique(Tail(seq), seen)
         ELSE <<Head(seq)>> \o Unique(Tail(seq), seen \cup {Head(seq)})

\* hard-coded guesses that the filter has emptied
StaticPaths_none(resource) == <<>>

\* the hard-coded guesses of buildCandidateList
StaticPaths(resource) ==
    <<resource, JobPath(resource)>> \o
    (IF resource = "applicants"
     THEN << "job/applications", "applications", "JobApplicants",
             "job/JobApplicants", "jobapplications", "JobApplications" >>
     ELSE <<>>)

\* the candidate list with the discovered names put first
buildCandidateList_discoveredFirst(resource, id, discovered) ==
    LET rels == Unique(discovered \o StaticPaths(resource), {})
    IN  [i \in 1..Len(rels) |-> Url(rels[i], id, NoQuery)]

\* buildCandidateList(resource, id, discovered): static paths, then the
\* discovered names, duplicates of the resolved path dropped
buildCandidateList(resource, id, discovered) ==
    LET rels == Unique(StaticPaths(resource) \o discovered, {})
    IN  [i \in 1..Len(rels) |-> Url(rels[i], id, NoQuery)]

\* buildCandidateUrls(resource, id) of the PATH_FALLBACKS revision
buildCandidateUrls(resource, id) ==
    LET candidates == IF resource = "applicants"
                      THEN PATH_FALLBACKS_applicants ELSE <<resource>>
    IN  [i \in 1..Len(candidates) |-> Url(candidates[i], id, NoQuery)]

\* buildUrls(resource, id) of the two alias revisions: primary and alias,
\* the alias left out when the resource has none
buildUrls(resource, id) ==
    <<Url(resource, id, NoQuery)>> \o
    (IF PATH_ALIASES(resource) # ""
     THEN <<Url(PATH_ALIASES(resource), id, NoQuery)>> ELSE <<>>)

\* u.searchParams.set(k, v) for every pair of the inbound query
WithQuery(urls, query) == [i \in 1..Len(urls) |-> [urls[i] EXCEPT !.query = query]]

----------------------------------------------------------------------------
\* Discovery

Patterns == <<"Applicant", "Application">>

\* name contains pat, compared case-insensitively
Includes(name, pat) ==
    \/ pat = "Applicant" /\ name \in {"applicants", "JobApplicantSet"}
    \/ pat = "Application" /\ name \in {"CandidateApplications", "JobApplications",
                                         "applications"}

\* the $metadata documents: the EntitySet names in document order
MetaDocs == {<<"CandidateApplications", "applicants", "JobApplicantSet", "Jobs">>}

\* the service documents: the names of svc.value in order
SvcDocs == {<<"Jobs", "JobApplicantSet">>}

\* names found in $metadata: for each pattern in turn, its matches in
\* document order
MetaMatches(doc) ==
    LET of(pat) == SelectSeq(doc, LAMBDA n : Includes(n, pat))
    IN  of(Patterns[1]) \o of(Patterns[2])

\* names found in the service document
SvcMatches(doc) ==
    SelectSeq(doc, LAMBDA n : \E i \in 1..Len(Patterns) : Includes(n, Patterns[i]))

----------------------------------------------------------------------------
\* Resolution

\* r.headers.get("content-type") || "application/json"
TypeOrJson(ctype) == IF ctype = "" THEN "application/json" ELSE ctype

\* a trace entry that notes the path but a fixed 404 for the status
Entry_fixed404(status, u, full) ==
    [status |-> 404, path |-> IF full THEN [u EXCEPT !.query = NoQuery] ELSE u,
     full |-> full]

\* a 'status@path' entry of the attempt trace; full is TRUE when the path is
\* u.pathname (base path included, query left out)
Entry(status, u, full) ==
    [status |-> status, path |-> IF full THEN [u EXCEPT !.query = NoQuery] ELSE u,
     full |-> full]

\* a response that is a miss other than a 404
IsOdd(resp) == resp.status > 0 /\ ~Ok(resp) /\ resp.status # 404

OddCount(s) == Len(SelectSeq(out[s], LAMBDA c : c.op = "get" /\ IsOdd(c.resp)))

\* the upstream may answer the pending GET of slot s with resp
MayAnswer(s, resp) ==
    /\ resp \in Responses
    /\ IsOdd(resp) => OddCount(s) < MaxOddMisses

\* res.type(ct).send(body): the status is left at Express's default 200
Send_defaultStatus(r, st, ct, body) == [r EXCEPT !.status = 200, !.ctype = ct, !.body = body]

\* res.status(st).type(ct).send(body)
Send(r, st, ct, body) == [r EXCEPT !.status = st, !.ctype = ct, !.body = body]

\* the candidates requested all at once, as with Promise.all over the list
StartLoop_parallel(s, l, log, urls) ==
    /\ loc' = [loc EXCEPT ![s] = [l EXCEPT !.attempts = urls, !.idx = 1]]
    /\ out' = [out EXCEPT ![s] =
                 log \o [i \in 1..Len(urls) |-> Call("get", urls[i], l.b)]]
    /\ pc' = [pc EXCEPT ![s] = "get"]
    /\ UNCHANGED res

\* The handler has its candidate URLs and enters the loop: the first GET is
\* issued, or, with no candidate at all, the "No upstream matched" reply.
\* l is the handler's locals and log its outbound calls so far.
StartLoop(s, l, log, urls) ==
    IF urls = <<>>
    THEN /\ res' = [res EXCEPT ![s] =
                      JsonError([@ EXCEPT !.hAttempts = << <<>> >>], 404,
                                "No upstream matched", "")]
         /\ pc' = [pc EXCEPT ![s] = "done"]
         /\ loc' = [loc EXCEPT ![s] = [l EXCEPT !.attempts = urls]]
         /\ out' = [out EXCEPT ![s] = log]
    ELSE /\ loc' = [loc EXCEPT ![s] = [l EXCEPT !.attempts = urls, !.idx = 1]]
         /\ out' = [out EXCEPT ![s] = Append(log, Call("get", urls[1], l.b))]
         /\ pc' = [pc EXCEPT ![s] = "get"]
         /\ UNCHANGED res

\* the candidate URLs of a request, as each revision builds them
CandidateUrls(q, discovered) ==
    CASE variant = "discovery" ->
           IF q.route = "collection"
           THEN WithQuery(buildCandidateList(q.resource, NoId, discovered), q.query)
           ELSE buildCandidateList(q.resource, q.id, discovered)
      [] variant = "fallbacks" ->
           IF q.route = "collection"
           THEN WithQuery(buildCandidateUrls(q.resource, NoId), q.query)
           ELSE buildCandidateUrls(q.resource, q.id)
      [] OTHER ->
           IF q.route = "collection"
           THEN WithQuery(buildUrls(q.resource, NoId), q.query)
           ELSE buildUrls(q.resource, q.id)

\* A proxy handler resumes with its token.  The discovery revision calls
\* discoverEntitySets for applicants, which starts with its own getBearer
\* call; every other case goes to the candidate loop.
AfterAuth(s) ==
    /\ pc[s] = "authed"
    /\ req[s].route # "debugAuth"
    /\ IF variant = "discovery" /\ req[s].resource = "applicants"
       THEN getBearer(s, req[s].route, "discover", "dauthed")
       ELSE /\ StartLoop(s, loc[s], out[s], CandidateUrls(req[s], <<>>))
            /\ UNCHANGED stats
    /\ UNCHANGED <<variant, creds, now, bearer, bearerExpiresAt, req, served,
                   authFailed>>

\* discoverEntitySets fetches $metadata
DiscoverMeta(s) ==
    /\ pc[s] = "dauthed"
    /\ out' = [out EXCEPT ![s] = Append(@, Call("meta", NoUrl, loc[s].db))]
    /\ pc' = [pc EXCEPT ![s] = "meta"]
    /\ UNCHANGED <<variant, creds, now, bearer, bearerExpiresAt, req, loc, res,
                   stats, served, authFailed>>

\* The $metadata fetch ends: it threw (failed, ignored) or returned doc; the
\* names matching the patterns are collected and the service document is
\* fetched
MetaDone(s, failed, doc) ==
    /\ pc[s] = "meta"
    /\ loc' = [loc EXCEPT ![s].metaNames =
                 IF failed THEN <<>> ELSE Unique(MetaMatches(doc), {})]
    /\ out' = [out EXCEPT ![s] = Append(@, Call("svc", NoUrl, loc[s].db))]
    /\ pc' = [pc EXCEPT ![s] = "svc"]
    /\ UNCHANGED <<variant, creds, now, bearer, bearerExpiresAt, req, res,
                   stats, served, authFailed>>

\* The service-document fetch ends: it threw ("throw"), was not 2xx
\* ("status"), was not JSON ("json") or listed doc ("doc").
\* discoverEntitySets returns and the handler builds its candidates.
SvcDone(s, kind, doc) ==
    /\ pc[s] = "svc"
    /\ LET found == IF kind = "doc" THEN SvcMatches(doc) ELSE <<>>
           discovered == Unique(loc[s].metaNames \o found, {})
           l == [loc[s] EXCEPT !.discovered = discovered, !.metaNames = <<>>]
       IN  StartLoop(s, l, out[s], CandidateUrls(req[s], discovered))
    /\ UNCHANGED <<variant, creds, now, bearer, bearerExpiresAt, req, stats,
                   served, authFailed>>

\* One turn of the attempt loop of the discovery revision: the pending GET
\* returned resp.  A 2xx ends the resolution with that response; anything
\* else is logged and the next candidate is requested; after the last
\* candidate the last response is relayed.
AttemptLoopStep(s, resp) ==
    /\ variant = "discovery"
    /\ pc[s] = "get"
    /\ MayAnswer(s, resp)
    /\ LET l == loc[s]
           u == l.attempts[l.idx]
           tryLog == Append(l.tryLog, Entry(resp.status, u, FALSE))
           answered == Answer(out[s], resp)
       IN  IF Ok(resp)
           THEN /\ res' = [res EXCEPT ![s] =
                             Send([@ EXCEPT !.hUpstream = <<u>>, !.hAttempts = <<tryLog>>],
                                  resp.status, TypeOrJson(resp.ctype), resp.body)]
                /\ loc' = [loc EXCEPT ![s].tryLog = tryLog]
                /\ out' = [out EXCEPT ![s] = answered]
                /\ pc' = [pc EXCEPT ![s] = "done"]
           ELSE IF l.idx < Len(l.attempts)
           THEN /\ loc' = [loc EXCEPT ![s].tryLog = tryLog, ![s].finalResp = resp,
                                      ![s].idx = l.idx + 1]
                /\ out' = [out EXCEPT ![s] =
                             Append(answered, Call("get", l.attempts[l.idx + 1], l.b))]
                /\ UNCHANGED <<pc, res>>
           ELSE /\ res' = [res EXCEPT ![s] =
                             Send([@ EXCEPT !.hAttempts = <<tryLog>>],
                                  resp.status, TypeOrJson(resp.ctype), resp.body)]
                /\ loc' = [loc EXCEPT ![s].tryLog = tryLog, ![s].finalResp = resp]
                /\ out' = [out EXCEPT ![s] = answered]
                /\ pc' = [pc EXCEPT ![s] = "done"]
    /\ UNCHANGED <<variant, creds, now, bearer, bearerExpiresAt, req, stats,
                   served, authFailed>>

\* One turn of tryCandidates of the PATH_FALLBACKS revision, and the
\* handler's reply once tryCandidates has returned
tryCandidatesStep(s, resp) ==
    /\ variant = "fallbacks"
    /\ pc[s] = "get"
    /\ MayAnswer(s, resp)
    /\ LET l == loc[s]
           u == l.attempts[l.idx]
           statuses == Append(l.tryLog, Entry(resp.status, u, TRUE))
           answered == Answer(out[s], resp)
           pathnames == [i \in 1..Len(l.attempts) |-> [l.attempts[i] EXCEPT !.query = NoQuery]]
       IN  IF Ok(resp)
           THEN /\ res' = [res EXCEPT ![s] =
                             Send([@ EXCEPT !.hCandidates = <<pathnames>>, !.hUpstream = <<u>>],
                                  resp.status, TypeOrJson(resp.ctype), resp.body)]
                /\ loc' = [loc EXCEPT ![s].tryLog = statuses]
                /\ out' = [out EXCEPT ![s] = answered]
                /\ pc' = [pc EXCEPT ![s] = "done"]
           ELSE IF l.idx < Len(l.attempts)
           THEN /\ loc' = [loc EXCEPT ![s].tryLog = statuses, ![s].finalResp = resp,
                                      ![s].idx = l.idx + 1]
                /\ out' = [out EXCEPT ![s] =
                             Append(answered, Call("get", l.attempts[l.idx + 1], l.b))]
                /\ UNCHANGED <<pc, res>>
           ELSE /\ res' = [res EXCEPT ![s] =
                             Send([@ EXCEPT !.hCandidates = <<pathnames>>,
                                            !.hAttempts = <<statuses>>, !.hUpstream = <<u>>],
                                  resp.status, TypeOrJson(resp.ctype), resp.body)]
                /\ loc' = [loc EXCEPT ![s].tryLog = statuses, ![s].finalResp = resp]
                /\ out' = [out EXCEPT ![s] = answered]
                /\ pc' = [pc EXCEPT ![s] = "done"]
    /\ UNCHANGED <<variant, creds, now, bearer, bearerExpiresAt, req, stats,
                   served, authFailed>>

\* fall back to the alias on a 404 only, in both alias revisions
AliasFallsBack_404(resp) == resp.status = 404

\* whether an alias revision falls back to the alias on a primary response
AliasFallsBack(resp) ==
    IF variant = "alias" THEN ~Ok(resp) ELSE resp.status = 404

\* The primary-plus-alias handlers: the pending GET returned resp.  After
\* the primary, the alias is requested when the resource has one and the
\* revision counts the primary's status as a miss; otherwise the response
\* just received is relayed.
AliasStep(s, resp) ==
    /\ variant \in {"alias", "alias404"}
    /\ pc[s] = "get"
    /\ MayAnswer(s, resp)
    /\ LET l == loc[s]
           u == l.attempts[l.idx]
           answered == Answer(out[s], resp)
           primary == IF variant = "alias" /\ l.idx = 1
                      THEN [res[s] EXCEPT !.hPrimaryUrl = <<u>>,
                                          !.hPrimaryStatus = <<resp.status>>]
                      ELSE res[s]
       IN  IF l.idx = 1 /\ AliasFallsBack(resp) /\ Len(l.attempts) = 2
           THEN /\ res' = [res EXCEPT ![s] = primary]
                /\ loc' = [loc EXCEPT ![s].idx = 2, ![s].finalResp = resp]
                /\ out' = [out EXCEPT ![s] =
                             Append(answered, Call("get", l.attempts[2], l.b))]
                /\ UNCHANGED pc
           ELSE /\ res' = [res EXCEPT ![s] =
                             Send([primary EXCEPT !.hUpstream = <<u>>],
                                  resp.status, TypeOrJson(resp.ctype), resp.body)]
                /\ loc' = [loc EXCEPT ![s].finalResp = resp]
                /\ out' = [out EXCEPT ![s] = answered]
                /\ pc' = [pc EXCEPT ![s] = "done"]
    /\ UNCHANGED <<variant, creds, now, bearer, bearerExpiresAt, req, stats,
                   served, authFailed>>

\* An outbound resource GET throws (transport failure): the exception
\* leaves the loop and reaches the handler's catch
GetThrows(s) ==
    /\ pc[s] = "get"
    /\ out' = [out EXCEPT ![s] = Answer(@, Thrown)]
    /\ Catch(s, req[s].route, "fetch failed")
    /\ UNCHANGED <<variant, creds, now, bearer, bearerExpiresAt, req, loc,
                   stats, served, authFailed>>

----------------------------------------------------------------------------
Next ==
    \/ Tick
    \/ \E s \in Slots :
        \/ \E q \in Requests : Receive(s, q)
        \/ DebugAuth(s)
        \/ DebugAuthReply(s)
        \/ LoginThrows(s)
        \/ \E r \in LoginResponses : LoginResponds(s, r)
        \/ \E d \in {0, DriftMs} : LoginOk(s, d)
        \/ LoginRejected(s)
        \/ AfterAuth(s)
        \/ DiscoverMeta(s)
        \/ \E d \in MetaDocs : MetaDone(s, FALSE, d) \/ MetaDone(s, TRUE, <<>>)
        \/ \E k \in {"throw", "status", "json"} : SvcDone(s, k, <<>>)
        \/ \E d \in SvcDocs : SvcDone(s, "doc", d)
        \/ \E r \in Responses :
               AttemptLoopStep(s, r) \/ tryCandidatesStep(s, r) \/ AliasStep(s, r)
        \/ GetThrows(s)
        \/ Finish(s)

Spec == Init /\ [][Next]_vars

----------------------------------------------------------------------------
\* Termination.  The clock stands still and the login answers with a token,
\* with a 2xx body that has no accessToken, or with a rejection.

LiveLoginResponses ==
    { LoginResponse(200, <<1, 2, 3, 4, 5, 6, 7, 8, 9>>, Num(180)),
      LoginResponse(200, <<>>, Absent),
      LoginResponse(401, <<>>, Absent) }

\* a turn of the handler of slot s other than taking a request: an outbound
\* call returns or throws and the handler runs to its next await or to its
\* response
HandlerStep(s) ==
    \/ DebugAuthReply(s)
    \/ LoginThrows(s)
    \/ \E r \in LiveLoginResponses : LoginResponds(s, r)
    \/ LoginOk(s, 0)
    \/ LoginRejected(s)
    \/ AfterAuth(s)
    \/ DiscoverMeta(s)
    \/ \E d \in MetaDocs : MetaDone(s, FALSE, d) \/ MetaDone(s, TRUE, <<>>)
    \/ \E k \in {"throw", "status", "json"} : SvcDone(s, k, <<>>)
    \/ \E d \in SvcDocs : SvcDone(s, "doc", d)
    \/ \E r \in Responses :
           AttemptLoopStep(s, r) \/ tryCandidatesStep(s, r) \/ AliasStep(s, r)
    \/ GetThrows(s)

NextFair ==
    \E s \in Slots :
        \/ \E q \in Requests : Receive(s, q)
        \/ DebugAuth(s)
        \/ HandlerStep(s)
        \/ Finish(s)

\* Every outbound call returns or throws, and the event loop runs the
\* continuation of an await that has settled
SpecFair == Init /\ [][NextFair]_vars /\ \A s \in Slots : WF_vars(HandlerStep(s))

----------------------------------------------------------------------------
\* Concurrent requests: two handlers interleave at their awaits.  Each action
\* above is one turn of the event loop (the code between two awaits), so a
\* behaviour of SpecConc is an interleaving of the turns of two handlers.

ConcSlots == {1, 2}

\* the inbound requests of the concurrent runs
ConcRequests ==
    {[route |-> "collection", resource |-> "jobs", id |-> NoId, query |-> NoQuery]}

\* the login responses of the concurrent runs: a token that is stale at
\* once, a token with a longer life, and a rejection
ConcLoginResponses ==
    { LoginResponse(200, <<1, 2, 3>>, Digits(0)),
      LoginResponse(200, <<1, 2, 3, 4, 5, 6, 7, 8, 9>>, Num(180)),
      LoginResponse(401, <<>>, Absent) }

InitConc ==
    /\ variant \in {"discovery", "fallbacks"}
    /\ creds = TRUE
    /\ now = 0
    /\ bearer = <<>>
    /\ bearerExpiresAt = 0
    /\ pc = [s \in ConcSlots |-> "idle"]
    /\ req = [s \in ConcSlots |-> NoReq]
    /\ loc = [s \in ConcSlots |-> NoLoc]
    /\ res = [s \in ConcSlots |-> NoRes]
    /\ out = [s \in ConcSlots |-> <<>>]
    /\ stats = [s \in ConcSlots |-> NoStats]
    /\ served = 0
    /\ authFailed = FALSE

NextConc ==
    \/ Tick
    \/ \E s \in ConcSlots :
        \/ \E q \in ConcRequests : Receive(s, q)
        \/ LoginThrows(s)
        \/ \E r \in ConcLoginResponses : LoginResponds(s, r)
        \/ \E d \in {0, DriftMs} : LoginOk(s, d)
        \/ LoginRejected(s)
        \/ AfterAuth(s)
        \/ \E r \in Responses : AttemptLoopStep(s, r) \/ tryCandidatesStep(s, r)
        \/ GetThrows(s)
        \/ Finish(s)

SpecConc == InitConc /\ [][NextConc]_vars

----------------------------------------------------------------------------
\* The discovery revision on its own, with credentials configured and every
\* login accepted: the behaviours in which a request reaches the candidate
\* list and the attempt loop.  The clock stands still; a token that is stale
\* at once makes discoverEntitySets log in again.

DiscoveryLoginResponses ==
    { LoginResponse(200, <<1, 2, 3>>, Digits(0)),
      LoginResponse(200, <<1, 2, 3, 4, 5, 6, 7, 8, 9>>, Num(180)) }

\* the $metadata documents of these runs: one more, whose only match is a
\* hard-coded path
DiscoveryMetaDocs == MetaDocs \cup {<<"JobApplications", "Jobs">>}

\* the service documents of these runs: one more, whose only match is a
\* hard-coded path
DiscoverySvcDocs == SvcDocs \cup {<<"applications">>}

InitDiscovery ==
    /\ variant = "discovery"
    /\ creds = TRUE
    /\ now = 0
    /\ bearer = <<>>
    /\ bearerExpiresAt = 0
    /\ pc = [s \in Slots |-> "idle"]
    /\ req = [s \in Slots |-> NoReq]
    /\ loc = [s \in Slots |-> NoLoc]
    /\ res = [s \in Slots |-> NoRes]
    /\ out = [s \in Slots |-> <<>>]
    /\ stats = [s \in Slots |-> NoStats]
    /\ served = 0
    /\ authFailed = FALSE

NextDiscovery ==
    \E s \in Slots :
        \/ \E q \in Requests : Receive(s, q)
        \/ \E r \in DiscoveryLoginResponses : LoginResponds(s, r)
        \/ LoginOk(s, 0)
        \/ AfterAuth(s)
        \/ DiscoverMeta(s)
        \/ \E d \in DiscoveryMetaDocs : MetaDone(s, FALSE, d) \/ MetaDone(s, TRUE, <<>>)
        \/ \E k \in {"throw", "status", "json"} : SvcDone(s, k, <<>>)
        \/ \E d \in DiscoverySvcDocs : SvcDone(s, "doc", d)
        \/ \E r \in Responses : AttemptLoopStep(s, r)
        \/ GetThrows(s)
        \/ Finish(s)

SpecDiscovery == InitDiscovery /\ [][NextDiscovery]_vars

----------------------------------------------------------------------------
\* Properties

Gets(s) == CallsOf(s, "get")

Logins(s) == CallsOf(s, "login")

Is2xx(st) == st >= 200 /\ st <= 299

\* an answered GET whose status is not 2xx
IsMiss(c) == c.resp.status > 0 /\ ~Is2xx(c.resp.status)

\* the content-type relayed for an upstream response
Relayed(ctype) == IF ctype = "" THEN "application/json" ELSE ctype

\* slot s makes a getBearer call in this step
CallsGetBearer(s) == stats'[s].gb = stats[s].gb + 1

\* slot s issues a login call in this step
IssuesLogin(s) ==
    /\ Len(out'[s]) = Len(out[s]) + 1
    /\ out'[s][Len(out'[s])].op = "login"
    /\ Len(Logins(s)) + 1 = Len(SelectSeq(out'[s], LAMBDA c : c.op = "login"))

\* slot s issues no outbound call in this step
IssuesNothing(s) == Len(out'[s]) = Len(out[s])

\* the token the getBearer call of this step hands to its caller
Returned(s) == IF pc[s] = "idle" THEN loc'[s].b ELSE loc'[s].db

\* C1: a request for a resource outside ALLOW_LIST, on either proxy route, is
\* answered 404 'Resource not allowed' and issues no outbound call and no
\* getBearer call, whatever the token cache holds.
C1_NotAllowed ==
    \A s \in Slots :
        (req[s].route \in {"collection", "byId"} /\ req[s].resource \notin
            {"applicants", "businesses", "candidates", "contacts", "documents",
             "hires", "jobs", "notes", "offers", "projects"})
        => /\ pc[s] = "done"
           /\ res[s].status = 404
           /\ res[s].body = "Resource not allowed"
           /\ out[s] = <<>>
           /\ stats[s].gb = 0

C1_Witness ==
    \E s \in Slots :
        /\ req[s].route = "byId" /\ req[s].resource = "users"
        /\ pc[s] = "done"
        /\ bearer # <<>>
        /\ now < bearerExpiresAt - 120000

\* C2 as stated: a getBearer call made with a token cached and
\* now < bearerExpiresAt - 120000 issues no login and returns the cached
\* token; any other call issues exactly one login call.
C2_AsStated ==
    [][\A s \in Slots : CallsGetBearer(s) =>
          IF bearer # <<>> /\ now < bearerExpiresAt - 120000
          THEN IssuesNothing(s) /\ Returned(s) = bearer /\ bearer' = bearer
          ELSE IssuesLogin(s)]_vars

\* C2 (amended): a getBearer call made with a token cached and
\* now < bearerExpiresAt - 120000 issues no login and returns the cached
\* token; any other call issues exactly one login call when the API key, user
\* name and password are configured, and none when one of them is missing.
\* No login is issued outside a getBearer call, so the logins of a request
\* number its getBearer calls that were not cache hits.
C2_TokenReuse ==
    [][\A s \in Slots :
          /\ CallsGetBearer(s) =>
               IF bearer # <<>> /\ now < bearerExpiresAt - 120000
               THEN IssuesNothing(s) /\ Returned(s) = bearer /\ bearer' = bearer
               ELSE IF creds THEN IssuesLogin(s)
                    ELSE IssuesNothing(s) /\ res'[s].status = 500
          /\ ~CallsGetBearer(s) =>
               Len(SelectSeq(out'[s], LAMBDA c : c.op = "login")) <= Len(Logins(s))
      ]_vars

\* two getBearer calls in one request, the second inside the freshness
\* window: one login in total
C2_Witness ==
    \E s \in Slots :
        /\ stats[s].gb = 2
        /\ Len(Logins(s)) = 1
        /\ loc[s].db = bearer /\ loc[s].db # <<>>
        /\ now > 0

\* the expiry the claim C3 gives for expiry indicator v of a login completed
\* at time t
C3_Expected(v, t) ==
    CASE v.kind \in {"num", "digits"} -> t + v.n * 1000
      [] v.kind = "date" -> v.n
      [] OTHER -> t + 30 * 60 * 1000

\* C3: after a successful login whose response carries expiry indicator v,
\* the cached expiry is now + N*1000 for a numeric N (number or all-digit
\* string), the instant T for an absolute timestamp T, and now + 30 minutes
\* when v is absent or unparseable.
C3_ExpiryParsing ==
    [][\A s \in Slots :
          (pc[s] = "loginBody" /\ pc'[s] \in {"authed", "dauthed"})
          => bearerExpiresAt' = C3_Expected(loc[s].login.expiresIn, now')]_vars

\* C4: the k-th GET of a resolution goes to the k-th candidate, and a
\* candidate's 2xx ends the loop: no GET follows it, so the GETs issued
\* number the index of the first 2xx candidate, and the response sent has
\* that candidate's status, body and content-type (application/json when
\* the candidate sent none).
C4_ShortCircuit ==
    \A s \in Slots :
        LET g == Gets(s) IN
        \A i \in 1..Len(g) :
            /\ i <= Len(loc[s].attempts) /\ g[i].url = loc[s].attempts[i]
            /\ Is2xx(g[i].resp.status) =>
                 /\ i = Len(g)
                 /\ pc[s] = "done"
                 /\ res[s].status = g[i].resp.status
                 /\ res[s].body = g[i].resp.body
                 /\ res[s].ctype = Relayed(g[i].resp.ctype)

\* the third candidate answers 2xx and later candidates are left untried
C4_Witness ==
    \E s \in Slots :
        /\ variant = "discovery"
        /\ pc[s] = "done"
        /\ Len(Gets(s)) = 3
        /\ Len(loc[s].attempts) > 3
        /\ Gets(s)[3].resp.status = 204
        /\ res[s].status = 204

\* C5: in the revisions that fall back on any failure (the discovery loop,
\* tryCandidates, and the primary-plus-alias handlers of part_000), a
\* candidate's non-2xx status, whatever it is, is recorded against that
\* candidate and the next candidate, if there is one, is requested.
C5_AnyNon2xxIsMiss ==
    \A s \in Slots :
        variant \in {"discovery", "fallbacks", "alias"} =>
        LET g == Gets(s) IN
        \A i \in 1..Len(g) :
            IsMiss(g[i]) =>
              /\ variant \in {"discovery", "fallbacks"} =>
                   /\ Len(loc[s].tryLog) >= i
                   /\ loc[s].tryLog[i].status = g[i].resp.status
                   /\ loc[s].tryLog[i].path.rel = loc[s].attempts[i].rel
                   /\ loc[s].tryLog[i].path.id = loc[s].attempts[i].id
              /\ (variant = "alias" /\ i = 1) =>
                   /\ res[s].hPrimaryStatus = <<g[1].resp.status>>
                   /\ res[s].hPrimaryUrl = <<loc[s].attempts[1]>>
              /\ i < Len(loc[s].attempts) =>
                   /\ Len(g) >= i + 1
                   /\ g[i + 1].url = loc[s].attempts[i + 1]

\* a 500 of the primary URL sends the part_000 handler to the alias
C5_Witness ==
    \E s \in Slots :
        /\ variant = "alias"
        /\ Len(Gets(s)) = 2
        /\ Gets(s)[1].resp.status = 500
        /\ Gets(s)[2].url.rel = "job/applicants"

\* C6: when every candidate of a resolution has answered with a non-2xx
\* status, the response sent has the status, body and content-type
\* (application/json when none) of the last candidate, and the attempt
\* trace has one entry per candidate, in candidate order, with the status
\* that candidate returned.
C6_Exhaustion ==
    \A s \in Slots :
        LET g == Gets(s)
            n == Len(loc[s].attempts)
        IN  ( /\ variant \in {"discovery", "fallbacks"}
              /\ n > 0 /\ Len(g) = n
              /\ \A i \in 1..n : IsMiss(g[i]) )
            => /\ pc[s] = "done"
               /\ res[s].status = g[n].resp.status
               /\ res[s].body = g[n].resp.body
               /\ res[s].ctype = Relayed(g[n].resp.ctype)
               /\ Len(res[s].hAttempts) = 1
               /\ Len(res[s].hAttempts[1]) = n
               /\ \A i \in 1..n :
                    /\ res[s].hAttempts[1][i].status = g[i].resp.status
                    /\ res[s].hAttempts[1][i].path.rel = loc[s].attempts[i].rel
                    /\ res[s].hAttempts[1][i].path.id = loc[s].attempts[i].id

\* all candidates of an applicants resolution, discovered ones included,
\* miss, one of them with a 500
C6_Witness ==
    \E s \in Slots :
        /\ variant = "discovery"
        /\ pc[s] = "done"
        /\ Len(loc[s].attempts) >= 9
        /\ Len(Gets(s)) = Len(loc[s].attempts)
        /\ \A i \in 1..Len(Gets(s)) : IsMiss(Gets(s)[i])
        /\ \E i \in 1..Len(Gets(s)) : Gets(s)[i].resp.status = 500
        /\ res[s].status = 404

\* C7: on both routes, every query parameter of the inbound request is on
\* the URL of every candidate GET of the resolution, with the same key and
\* value.
C7_QueryPropagation ==
    \A s \in Slots :
        \A i \in 1..Len(Gets(s)) : req[s].query \subseteq Gets(s)[i].url.query

\* C8: a candidate GET that throws is handled like a miss: the next
\* candidate, if there is one, is still requested.
C8_TransportErrorIsMiss ==
    \A s \in Slots :
        \A i \in 1..Len(Gets(s)) :
            (Gets(s)[i].resp = Thrown /\ i < Len(loc[s].attempts))
            => Len(Gets(s)) >= i + 1

\* C9: a request on applicants that has entered discoverEntitySets is not
\* failed by anything that happens in there: when it ends it has attempted
\* the static candidates.
C9_DiscoveryBestEffort ==
    \A s \in Slots :
        ( /\ variant = "discovery"
          /\ req[s].resource = "applicants"
          /\ stats[s].gb >= 2
          /\ pc[s] = "done" )
        => Len(Gets(s)) >= 1

\* slot s is inside a login of getBearer
InLogin(p) == p \in {"login", "loginBody"}

\* C10: a login that fails (transport error, non-2xx status, or a body
\* without accessToken) ends the request with the handler's 500, leaves
\* bearer and bearerExpiresAt as they have been since the call began, is
\* not retried (no further outbound call; one login per getBearer call that
\* missed the cache), and the next getBearer call issues a login.
C10_FailedLogin ==
    [][\A s \in Slots :
          /\ (InLogin(pc[s]) /\ ~(pc'[s] \in {"authed", "dauthed"})) =>
               /\ bearer' = bearer
               /\ bearerExpiresAt' = bearerExpiresAt
               /\ Len(SelectSeq(out'[s], LAMBDA c : c.op = "login")) = Len(Logins(s))
          /\ (InLogin(pc[s]) /\ pc'[s] = "done") =>
               /\ res'[s].status = 500
               /\ res'[s].body = IF req[s].route = "debugAuth" THEN "ok: false"
                                 ELSE "Proxy fetch failed"
               /\ res'[s].detail \in {"fetch failed", "Auth failed",
                                      "Auth payload missing accessToken"}
               /\ IssuesNothing(s)
               /\ Len(Logins(s)) = stats[s].gb - stats[s].hits
          /\ (authFailed /\ CallsGetBearer(s)) => IssuesLogin(s)
      ]_vars

\* after a failed login that left a stale token in the cache, the next
\* request's getBearer call has issued a login
C10_Witness ==
    \E s \in Slots :
        /\ authFailed
        /\ bearer # <<>>
        /\ served = 2
        /\ pc[s] = "login"

\* the expiries the code may cache for a login response with expiry indicator
\* v when the cache is written at time t
C11_Expiries(v, t) ==
    CASE v.kind = "digits" -> {t + v.n * 1000}
      [] v.kind = "num" /\ v.n # 0 -> {t + v.n * 1000}
      [] v.kind = "date" -> {v.n + d : d \in 0..DriftMs}
      [] OTHER -> {t + 30 * 60 * 1000}

\* C11: with two requests interleaving at their awaits, the cached pair
\* starts as the empty pair, and every change of bearer or bearerExpiresAt is
\* made in one turn that writes both from one accepted login response (2xx
\* with an accessToken): the token of that response and the expiry computed
\* from that same response.  So the pair seen at any suspension point is the
\* pair of one login.
C11_CachePairAtomic ==
    /\ (bearer = <<>> /\ bearerExpiresAt = 0)
    /\ [][(bearer' # bearer \/ bearerExpiresAt' # bearerExpiresAt) =>
            \E s \in DOMAIN pc :
                /\ pc[s] = "loginBody"
                /\ Is2xx(loc[s].login.status)
                /\ loc[s].login.accessToken # <<>>
                /\ bearer' = loc[s].login.accessToken
                /\ bearerExpiresAt' \in C11_Expiries(loc[s].login.expiresIn, now')
         ]_vars

\* two logins are in flight at once: the clock has not moved, the cache holds
\* the fresh token of one request's login, and the other request is still
\* reading the response of its own login, which carries another token
C11_Witness ==
    /\ DOMAIN pc = {1, 2}
    /\ now = 0
    /\ bearer = <<1, 2, 3, 4, 5, 6, 7, 8, 9>>
    /\ bearerExpiresAt = 180000
    /\ pc[2] = "authed" /\ loc[2].b = bearer
    /\ pc[1] = "loginBody"
    /\ loc[1].login.accessToken = <<1, 2, 3>>

\* the hard-coded paths of a resource, as a set
C12_Static(resource) ==
    {resource, JobPath(resource)} \cup
    (IF resource = "applicants"
     THEN {"job/applications", "applications", "JobApplicants",
           "job/JobApplicants", "jobapplications", "JobApplications"}
     ELSE {})

\* C12: in the candidate list of the discovery revision every hard-coded
\* path is present and comes before every candidate that is there only
\* because discovery returned its name (a discovered name equal to a
\* hard-coded path stays at the hard-coded position), and the GETs of the
\* resolution are issued in that order: no hard-coded path is requested
\* after a discovered-only one.
C12_StaticFirst ==
    \A s \in Slots :
        (variant = "discovery" /\ loc[s].attempts # <<>>) =>
        LET a == loc[s].attempts
            static == C12_Static(req[s].resource)
            g == Gets(s)
        IN  /\ \A p \in static : \E i \in 1..Len(a) : a[i].rel = p
            /\ \A i, j \in 1..Len(a) :
                 (a[i].rel \in static /\ a[j].rel \notin static) => i < j
            /\ \A i, j \in 1..Len(g) :
                 (g[i].url.rel \in static /\ g[j].url.rel \notin static) => i < j
            /\ \A j \in 1..Len(a) :
                 a[j].rel \notin static =>
                   \E k \in 1..Len(loc[s].discovered) : loc[s].discovered[k] = a[j].rel

\* discovery returned names, one of them a hard-coded path, and the
\* resolution has gone through the hard-coded paths to a discovered one
C12_Witness ==
    \E s \in Slots :
        /\ variant = "discovery"
        /\ \E k \in 1..Len(loc[s].discovered) : loc[s].discovered[k] = "applicants"
        /\ Len(Gets(s)) = 9
        /\ Gets(s)[8].url.rel = "JobApplications"
        /\ Gets(s)[9].url.rel = "JobApplicantSet"

\* the index of the first occurrence of x in seq
C13_First(seq, x) ==
    CHOOSE i \in 1..Len(seq) : seq[i] = x /\ \A j \in 1..(i - 1) : seq[j] # x

\* C13: the candidate list of a resolution has no two entries with the same
\* resolved path; in the discovery revision it holds exactly the paths of
\* the hard-coded guesses followed by the discovered names, ordered by
\* their first occurrence there.  So no URL is requested twice in a
\* resolution and no path is twice in the attempt trace.
C13_Dedup ==
    \A s \in Slots :
        LET a == loc[s].attempts
            g == Gets(s)
            t == loc[s].tryLog
        IN  /\ \A i, j \in 1..Len(a) : a[i] = a[j] => i = j
            /\ \A i, j \in 1..Len(g) : g[i].url = g[j].url => i = j
            /\ \A i, j \in 1..Len(t) : t[i].path = t[j].path => i = j
            /\ (variant = "discovery" /\ a # <<>>) =>
                 LET orig == StaticPaths(req[s].resource) \o loc[s].discovered
                     first == [i \in 1..Len(a) |-> C13_First(orig, a[i].rel)]
                 IN  /\ {a[i].rel : i \in 1..Len(a)} = {orig[k] : k \in 1..Len(orig)}
                     /\ \A i \in 1..(Len(a) - 1) : first[i] < first[i + 1]

\* discovery returned a name that is also a hard-coded path, and the
\* resolution has requested every candidate without a success
C13_Witness ==
    \E s \in Slots :
        /\ variant = "discovery"
        /\ pc[s] = "done"
        /\ loc[s].discovered = <<"applicants", "JobApplicantSet", "CandidateApplications">>
        /\ Len(loc[s].attempts) = 10
        /\ Len(Gets(s)) = 10
        /\ Len(loc[s].tryLog) = 10

\* the resolution of slot s has ended in a 2xx success or in exhaustion:
\* the response is sent and every GET issued was answered with a status
Resolved(s) ==
    /\ pc[s] = "done"
    /\ Len(Gets(s)) >= 1
    /\ \A i \in 1..Len(Gets(s)) : Gets(s)[i].resp.status > 0

\* C14: in the discovery revision and in the PATH_FALLBACKS revision, the
\* response of every resolution that ended in a 2xx success or in exhaustion
\* carries the attempt trace (X-Proxy-Attempts): one 'status@path' entry per
\* candidate attempted, in order.
C14_TraceExposed ==
    \A s \in Slots :
        (variant \in {"discovery", "fallbacks"} /\ Resolved(s)) =>
        LET g == Gets(s) IN
        /\ Len(res[s].hAttempts) = 1
        /\ Len(res[s].hAttempts[1]) = Len(g)
        /\ \A i \in 1..Len(g) :
             /\ res[s].hAttempts[1][i].status = g[i].resp.status
             /\ res[s].hAttempts[1][i].path.rel = g[i].url.rel
             /\ res[s].hAttempts[1][i].path.id = g[i].url.id

\* C15: the response of every resolution that ended in a 2xx success or in
\* exhaustion carries the upstream-URL header (X-Proxy-Upstream) with the
\* URL of the last candidate requested: the winning candidate on a success,
\* the last candidate of the list on exhaustion.
C15_UpstreamHeader ==
    \A s \in Slots :
        Resolved(s) => res[s].hUpstream = <<Gets(s)[Len(Gets(s))].url>>

\* C16: in the discovery revision, when candidate k is the first to answer
\* 2xx, the response has that candidate's status and body, the attempt
\* trace has exactly k entries in candidate order, the first k-1 with the
\* non-2xx statuses returned and the k-th with the 2xx status, each with its
\* candidate's path relative to the base URL, and X-Proxy-Upstream is the
\* k-th candidate's URL.  For applicants with applicants -> 404 and
\* job/applicants -> 200 the trace is 404@/applicants|200@/job/applicants.
C16_FirstSuccessTrace ==
    \A s \in Slots :
        LET g == Gets(s)
            k == Len(g)
            a == loc[s].attempts
        IN  (variant = "discovery" /\ k >= 1 /\ Is2xx(g[k].resp.status)) =>
            /\ res[s].status = g[k].resp.status
            /\ res[s].body = g[k].resp.body
            /\ res[s].hUpstream = <<a[k]>>
            /\ Len(res[s].hAttempts) = 1
            /\ Len(res[s].hAttempts[1]) = k
            /\ \A i \in 1..k :
                 /\ res[s].hAttempts[1][i].status = g[i].resp.status
                 /\ res[s].hAttempts[1][i].path = a[i]
                 /\ ~res[s].hAttempts[1][i].full
                 /\ i < k => ~Is2xx(res[s].hAttempts[1][i].status)
            /\ ( /\ req[s].resource = "applicants" /\ req[s].query = {}
                 /\ req[s].route = "collection"
                 /\ k = 2 /\ g[1].resp.status = 404 /\ g[2].resp.status = 200 )
               => res[s].hAttempts[1] =
                    << [status |-> 404, full |-> FALSE,
                        path |-> [rel |-> "applicants", id |-> "", query |-> {}]],
                       [status |-> 200, full |-> FALSE,
                        path |-> [rel |-> "job/applicants", id |-> "", query |-> {}]] >>

\* the scenario of the claim: applicants -> 404, job/applicants -> 200
C16_Witness ==
    \E s \in Slots :
        /\ variant = "discovery"
        /\ req[s].resource = "applicants" /\ req[s].route = "collection"
        /\ req[s].query = {}
        /\ pc[s] = "done"
        /\ Len(Gets(s)) = 2
        /\ Gets(s)[1].resp.status = 404
        /\ Gets(s)[2].resp.status = 200
        /\ res[s].status = 200 /\ res[s].body = "value"
        /\ res[s].hUpstream = <<[rel |-> "job/applicants", id |-> "", query |-> {}]>>

\* C17: with the API key, the user name or the password not configured, a
\* getBearer call that finds the cache empty or stale issues no outbound
\* call and ends the request at once with a 500 whose detail is the
\* configuration error; nothing is retried, so such a server never issues an
\* outbound call at all.
C17_MissingCredentials ==
    /\ [](~creds => \A s \in Slots : out[s] = <<>>)
    /\ [][\A s \in Slots :
            ( /\ ~creds
              /\ CallsGetBearer(s)
              /\ ~(bearer # <<>> /\ now < bearerExpiresAt - 120000) ) =>
            /\ IssuesNothing(s)
            /\ pc'[s] = "done"
            /\ res'[s].status = 500
            /\ res'[s].detail = "Missing SMARTSEARCH_API_KEY or SS_USER or SS_PASS"
            /\ req'[s].route \in {"collection", "byId"} =>
                 res'[s].body = "Proxy fetch failed"
            /\ bearer' = bearer /\ bearerExpiresAt' = bearerExpiresAt
       ]_vars

\* a request for an allowed resource has ended in the configuration error
C17_Witness ==
    \E s \in Slots :
        /\ ~creds
        /\ req[s].route = "collection" /\ req[s].resource = "applicants"
        /\ pc[s] = "done"
        /\ stats[s].gb = 1
        /\ res[s].status = 500
        /\ res[s].detail = "Missing SMARTSEARCH_API_KEY or SS_USER or SS_PASS"

\* C18: every inbound request ends with exactly one response, whatever the
\* upstream does.  A response is on the wire exactly when the handler has
\* ended, and once sent it is not sent again; for an allowed resource on a
\* proxy route it is either the relayed status of the last candidate
\* requested or a 500 'Proxy fetch failed' with a detail; the handler issues
\* at most one GET per candidate, in list order; and, every outbound call
\* returning or throwing, each request that has entered its handler reaches
\* its response.
C18_OneResponse ==
    /\ [](\A s \in Slots : (pc[s] = "done") <=> (res[s].status # 0))
    /\ [](\A s \in Slots : pc[s] \in {"idle", "login", "loginBody", "authed", "dauthed",
                                     "meta", "svc", "get", "done"})
    /\ [][\A s \in Slots :
            res[s].status # 0 =>
               \/ res'[s] = res[s]
               \/ pc'[s] = "idle" /\ res'[s].status = 0]_vars
    /\ [](\A s \in Slots :
            ( /\ pc[s] = "done"
              /\ req[s].route \in {"collection", "byId"}
              /\ req[s].resource \in {"applicants", "jobs"} ) =>
            \/ /\ Len(Gets(s)) >= 1
               /\ Gets(s)[Len(Gets(s))].resp.status > 0
               /\ res[s].status = Gets(s)[Len(Gets(s))].resp.status
            \/ /\ res[s].status = 500
               /\ res[s].body = "Proxy fetch failed"
               /\ res[s].detail # "")
    /\ [](\A s \in Slots :
            /\ Len(Gets(s)) <= Len(loc[s].attempts)
            /\ \A i \in 1..Len(Gets(s)) : Gets(s)[i].url = loc[s].attempts[i]
            /\ \A i, j \in 1..Len(Gets(s)) : Gets(s)[i].url = Gets(s)[j].url => i = j)
    /\ \A s \in Slots : (pc[s] # "idle") ~> (pc[s] = "done")

\* a candidate GET threw after an earlier candidate had missed, and the
\* request has ended with the handler's 500
C18_Witness ==
    \E s \in Slots :
        /\ pc[s] = "done"
        /\ Len(Gets(s)) = 3
        /\ Gets(s)[1].resp.status = 500
        /\ Gets(s)[3].resp = Thrown
        /\ res[s].status = 500
        /\ res[s].detail = "fetch failed"

\* C19: with two requests interleaving, each resolution has at most one
\* candidate GET outstanding: every GET but the last issued has its response
\* (a status with its body, or a thrown error), and a GET is outstanding
\* exactly while the handler waits in its loop.  GETs of the two requests
\* may be outstanding together.
C19_Sequential ==
    \A s \in DOMAIN pc :
        LET g == Gets(s) IN
        /\ \A i \in 1..(Len(g) - 1) : g[i].resp.status # 0
        /\ Cardinality({i \in 1..Len(g) : g[i].resp.status = 0}) <= 1
        /\ (pc[s] = "get") <=> (Len(g) >= 1 /\ g[Len(g)].resp.status = 0)

\* both requests have a candidate GET outstanding, one of them its second
C19_Witness ==
    /\ DOMAIN pc = {1, 2}
    /\ pc[1] = "get" /\ pc[2] = "get"
    /\ Len(Gets(1)) = 2 /\ Gets(1)[1].resp.status = 404
    /\ Gets(1)[2].resp.status = 0
    /\ Len(Gets(2)) = 1 /\ Gets(2)[1].resp.status = 0

\* C20: no response holds the full bearer token: the bearerPreview of a
\* /debug/auth reply is a strict prefix of the token the handler obtained,
\* whatever the token's length, and the response of a proxy route, an error
\* response included, has no token field at all.
C20_TokenNotExposed ==
    \A s \in Slots :
        pc[s] = "done" =>
        /\ (req[s].route = "debugAuth" /\ res[s].status = 200) =>
             /\ Len(res[s].bearerPreview) = 1
             /\ Len(res[s].bearerPreview[1]) < Len(loc[s].b)
             /\ res[s].bearerPreview[1] = SubSeq(loc[s].b, 1, Len(res[s].bearerPreview[1]))
        /\ (req[s].route # "debugAuth" \/ res[s].status # 200) =>
             res[s].bearerPreview = <<>>

\* C21: in the primary-plus-alias handlers at the end of src/server.js, a
\* non-2xx status of the primary URL, whatever it is, sends the handler to
\* the alias when the resource has one, and the alias's response is the one
\* relayed.
C21_Alias404AnyNon2xx ==
    \A s \in Slots :
        LET g == Gets(s)
            a == loc[s].attempts
        IN  (variant = "alias404" /\ Len(a) = 2 /\ Len(g) >= 1 /\ IsMiss(g[1])) =>
            /\ Len(g) = 2
            /\ g[2].url = a[2]
            /\ (pc[s] = "done" /\ g[2].resp.status > 0) =>
                 /\ res[s].status = g[2].resp.status
                 /\ res[s].body = g[2].resp.body

C23_SameToken ==
    \A s \in DOMAIN pc :
        \A i \in 1..Len(Gets(s)) :
            /\ Gets(s)[i].token = loc[s].b
            /\ Gets(s)[i].token # <<>>
            /\ Gets(s)[i].token = Gets(s)[1].token

\* a resolution is at its second candidate with a token that was stale from
\* the start, while the cache holds the token of the other request's login
C23_Witness ==
    /\ DOMAIN pc = {1, 2}
    /\ Len(Gets(1)) = 2
    /\ Gets(1)[1].token = <<1, 2, 3>> /\ Gets(1)[2].token = <<1, 2, 3>>
    /\ Gets(1)[2].resp.status = 0
    /\ bearer = <<1, 2, 3, 4, 5, 6, 7, 8, 9>>
    /\ loc[2].b = bearer
    /\ Gets(2) = <<>>

\* the cached token has at most 120 s left.  A token whose login gave it a
\* lifetime of at most 120 s is in this condition from the moment it is
\* cached (then bearerExpiresAt - now is that lifetime).
ShortLived == bearer # <<>> /\ bearerExpiresAt - now <= 120000

\* C24: a cached token with at most 120 s of lifetime stays so for as long
\* as it is cached, and never satisfies the cache-hit test: every getBearer
\* call made while it is cached issues a new login.  So in the discovery
\* revision an applicants request whose handler has just logged in and
\* obtained such a token logs in a second time inside discoverEntitySets:
\* two logins in one request.
C24_ShortLivedToken ==
    [][\A s \in Slots :
          /\ (ShortLived /\ bearer' = bearer /\ bearerExpiresAt' = bearerExpiresAt) =>
               bearerExpiresAt' - now' <= 120000
          /\ (ShortLived /\ CallsGetBearer(s)) =>
               /\ IssuesLogin(s)
               /\ stats'[s].hits = stats[s].hits
          /\ ( /\ ShortLived
               /\ variant = "discovery"
               /\ req[s].resource = "applicants"
               /\ pc[s] = "authed" /\ pc'[s] # "authed"
               /\ Len(Logins(s)) = 1 /\ loc[s].b = bearer ) =>
               /\ stats'[s].gb = 2
               /\ Len(SelectSeq(out'[s], LAMBDA c : c.op = "login")) = 2
      ]_vars

\* an applicants request is in its second login; the token its handler
\* obtained has exactly 120 s left
C24_Witness ==
    \E s \in Slots :
        /\ variant = "discovery"
        /\ req[s].resource = "applicants"
        /\ pc[s] = "login"
        /\ loc[s].ret = "discover"
        /\ stats[s] = [gb |-> 2, hits |-> 0]
        /\ Len(Logins(s)) = 2
        /\ bearer = loc[s].b
        /\ bearerExpiresAt - now = 120000

====
